---- MODULE Spec2Model ----
(***************************************************************************)
(* A model of the IPMA MCP server (src/src/index.js): the call-tool        *)
(* dispatcher, the list-tools handler and the six tool handlers, each      *)
(* handler split at its `await fetch(...)` points so that calls from       *)
(* several connections interleave exactly where the runtime lets them.     *)
(*                                                                         *)
(* Strings the code inspects (toLowerCase, includes, parseFloat) are       *)
(* sequences of one-character strings; strings it only compares or prints  *)
(* are TLA+ strings.  JavaScript values that may be of several types are   *)
(* tagged records [t, v].                                                  *)
(***************************************************************************)
EXTENDS Integers, Sequences, FiniteSets, TLC

VARIABLES
    scope,      \* the environment of the run: "full" (one connection, every request and
                \* upstream answer of the model) or "small" (NumCalls connections)
    pc,         \* per call slot: "idle", "listing", "fetching", "done"
    request,    \* per call slot: the request being served
    handler,    \* per call slot: the handler invocation (function and actual parameters)
    inflight,   \* per call slot: the URLs fetched and not yet resolved
    fetched,    \* per call slot: the fetches resolved so far, in order, with their responses
    thrown,     \* per call slot: the error first raised while serving the call, before any catch
    outcome,    \* per call slot: what the caller receives
    overlap     \* per call slot: another call made progress while this one was awaiting (history)

vars == <<scope, pc, request, handler, inflight, fetched, thrown, outcome, overlap>>

(***************************************************************************)
(* Bounds of the model.                                                    *)
(***************************************************************************)
NumCalls == 2        \* call slots served concurrently
MaxLocs == 2         \* entries in a locations response
MaxForecast == 2     \* daily entries in a forecast response
MaxDaysArg == 3      \* largest `days` argument tried
MaxStations == 1     \* stations in one observation timestamp
MaxUvLen == 3        \* characters in an iUv string

Calls == 1..NumCalls

(***************************************************************************)
(* JavaScript values and the operators the code applies to them.           *)
(***************************************************************************)
Undefined == [t |-> "undefined", v |-> <<>>]

Str(s) == [t |-> "string", v |-> s]

Num(n) == [t |-> "number", v |-> <<n>>]

\* JavaScript truthiness of undefined, a string or a number.
Truthy(x) ==
    CASE x.t = "undefined" -> FALSE
      [] x.t = "string" -> x.v # <<>>
      [] x.t = "number" -> x.v[1] # 0

\* String.prototype.toLowerCase on the letters the model uses.
LowerChar(ch) ==
    CASE ch = "A" -> "a" [] ch = "B" -> "b" [] ch = "C" -> "c"
      [] ch = "F" -> "f" [] ch = "G" -> "g" [] ch = "L" -> "l"
      [] ch = "O" -> "o" [] ch = "P" -> "p" [] ch = "R" -> "r"
      [] ch = "T" -> "t" [] ch = "Z" -> "z"
      [] OTHER -> ch

toLowerCase(s) == [i \in 1..Len(s) |-> LowerChar(s[i])]

\* String.prototype.includes: sub occurs in s as a contiguous substring.
includes(s, sub) ==
    \E i \in 0..(Len(s) - Len(sub)) :
        \A j \in 1..Len(sub) : s[i + j] = sub[j]

\* A slice that is one element too long.
Slice0Inclusive(a, end) ==
    LET n == Len(a)
        k == IF end < 0 THEN (IF n + end + 1 < 0 THEN 0 ELSE n + end + 1)
             ELSE (IF end + 1 > n THEN n ELSE end + 1)
    IN  SubSeq(a, 1, k)

\* Array.prototype.slice(0, end) for an integer end (negative counts from the back).
Slice0(a, end) ==
    LET n == Len(a)
        k == IF end < 0 THEN (IF n + end < 0 THEN 0 ELSE n + end)
             ELSE (IF end > n THEN n ELSE end)
    IN  SubSeq(a, 1, k)

\* Array.prototype.find's position, given the callback's verdict on each element:
\* the first index whose verdict is true, 0 if there is none.
FindIndex(hits) ==
    IF \E i \in 1..Len(hits) : hits[i]
    THEN CHOOSE i \in 1..Len(hits) : hits[i] /\ \A j \in 1..(i - 1) : ~hits[j]
    ELSE 0

\* All sequences over S of length at most n.
SeqsUpTo(S, n) == UNION {[1..k -> S] : k \in 0..n}

\* The concatenation of a sequence of sequences (repeated `result += ...`).
RECURSIVE Flatten(_)
Flatten(ss) == IF ss = <<>> THEN <<>> ELSE Head(ss) \o Flatten(Tail(ss))

\* One line (or block) of a rendered text: a label and the values printed in it.
Line(label, vals) == [line |-> label, val |-> vals]

(***************************************************************************)
(* JSON documents and fetch responses.                                     *)
(***************************************************************************)
\* {"data": [...], ...}
Obj(d) == [type |-> "object", hasData |-> TRUE, elems |-> d]

\* An object without a `data` member whose own keys, in Object.keys order, are `entries`.
Map(entries) == [type |-> "object", hasData |-> FALSE, elems |-> entries]

\* A top-level JSON array.
Arr(a) == [type |-> "array", hasData |-> FALSE, elems |-> a]

\* fetch() rejected (network failure).
Rejected == [r |-> "reject", doc |-> Map(<<>>)]

\* fetch() resolved but response.json() rejected (the body is not JSON).
NotJson == [r |-> "notjson", doc |-> Map(<<>>)]

Json(doc) == [r |-> "json", doc |-> doc]

Failures == {Rejected, NotJson}

(***************************************************************************)
(* Errors.                                                                 *)
(***************************************************************************)
NoError == [name |-> "none", code |-> "", message |-> <<>>]

JsError(name, msg) == [name |-> name, code |-> "", message |-> <<msg>>]

\* new McpError(code, message)
McpError(code, msg) == [name |-> "McpError", code |-> code, message |-> msg]

\* The error `await fetch(url)` / `await response.json()` raises for a failed response.
FetchFailure(resp) ==
    IF resp.r = "reject" THEN JsError("FetchError", "request failed")
    ELSE JsError("SyntaxError", "Unexpected token in JSON")

\* A handler that starts the weather-types fetch alongside every fetch it awaits.
AwaitWithPrefetch(url) ==
    [next |-> "await", urls |-> {url, [ep |-> "weather-type-classe", id |-> 0]},
     err |-> NoError, text |-> <<>>]

\* What a handler body does next: await one or more fetches, return a text, or throw.
Await(url) == [next |-> "await", urls |-> {url}, err |-> NoError, text |-> <<>>]

Return(text) == [next |-> "return", urls |-> {}, err |-> NoError, text |-> text]

Throw(err) == [next |-> "throw", urls |-> {}, err |-> err, text |-> <<>>]

\* A catch that reports the failure as the text of an ordinary result.
HandlerCatchAsText(prefix, step) ==
    IF step.next = "throw"
    THEN Return(<<Line(prefix, step.err.message)>>)
    ELSE step

\* `error instanceof Error ? error.message : String(error)` wrapped by a handler's catch.
HandlerCatch(prefix, step) ==
    IF step.next = "throw"
    THEN [step EXCEPT !.err = McpError("InternalError", <<prefix>> \o step.err.message)]
    ELSE step

(***************************************************************************)
(* URLs (baseUrl is a constant of the instance and is never written).      *)
(***************************************************************************)
Url(ep, id) == [ep |-> ep, id |-> id]

LocationsUrl == Url("distrits-islands", 0)

ForecastUrl(globalIdLocal) == Url("forecast/daily", globalIdLocal)

WeatherTypesUrl == Url("weather-type-classe", 0)

WarningsUrl == Url("warnings_www", 0)

SeismicUrl(areaId) == Url("seismic", areaId)

ObservationsUrl == Url("stations/observations", 0)

StationsUrl == Url("stations/stations", 0)

UvUrl == Url("uv", 0)

(***************************************************************************)
(* getWeatherForecast(city, days).  `log` is the sequence of responses the *)
(* handler's fetches have resolved with so far; the body is run from its   *)
(* start on that log and tells what the handler does at the point reached. *)
(* Fields the handler prints verbatim and never inspects (latitude,        *)
(* longitude, dataUpdate, tMin, tMax, precipitaProb, predWindDir) carry no *)
(* behaviour and are left out of the records.                              *)
(***************************************************************************)
\* weatherTypes[day.idWeatherType]?.descWeatherTypePT || "Desconhecido"
WeatherDesc(types, id) ==
    LET k == FindIndex([i \in 1..Len(types) |-> types[i].idWeatherType = id])
        \* reduce() keeps the last item of each id
        last == IF k = 0 THEN 0
                ELSE CHOOSE i \in 1..Len(types) :
                        /\ types[i].idWeatherType = id
                        /\ \A j \in (i + 1)..Len(types) : types[j].idWeatherType # id
    IN  IF last = 0 \/ types[last].descWeatherTypePT = "" THEN "Desconhecido"
        ELSE types[last].descWeatherTypePT

\* The text built from line 171 on: the header, then one block per day of the slice.
ForecastText(location, forecast, types, days) ==
    LET limitedData == Slice0(forecast, days)
    IN  <<Line("Previsao para", <<location.local>>)>>
        \o [i \in 1..Len(limitedData) |->
              Line("day", <<limitedData[i].forecastDate,
                            WeatherDesc(types, limitedData[i].idWeatherType)>>)]

NotFoundText(city) == <<Line("Cidade nao encontrada", <<city>>)>>

\* locationsData.data.find(loc => loc.local.toLowerCase().includes(city.toLowerCase()))
FindLocation(locs, city) ==
    FindIndex([i \in 1..Len(locs) |->
                 includes(toLowerCase(locs[i].local), toLowerCase(city.v))])

ForecastBody(city, days, log) ==
    IF Len(log) = 0 THEN Await(LocationsUrl)
    ELSE IF log[1].r # "json" THEN Throw(FetchFailure(log[1]))
    ELSE IF ~log[1].doc.hasData
    THEN Throw(JsError("TypeError", "Cannot read properties of undefined (reading 'find')"))
    ELSE LET locs == log[1].doc.elems IN
    IF locs # <<>> /\ city.t # "string"
    THEN Throw(JsError("TypeError", "city.toLowerCase is not a function"))
    ELSE LET k == IF locs = <<>> THEN 0 ELSE FindLocation(locs, city) IN
    IF k = 0 THEN Return(NotFoundText(city))
    ELSE IF Len(log) = 1 THEN Await(ForecastUrl(locs[k].globalIdLocal))
    ELSE IF log[2].r # "json" THEN Throw(FetchFailure(log[2]))
    ELSE IF Len(log) = 2 THEN Await(WeatherTypesUrl)
    ELSE IF log[3].r # "json" THEN Throw(FetchFailure(log[3]))
    ELSE IF ~log[3].doc.hasData
    THEN Throw(JsError("TypeError", "Cannot read properties of undefined (reading 'reduce')"))
    ELSE IF ~log[2].doc.hasData
    THEN Throw(JsError("TypeError", "Cannot read properties of undefined (reading 'slice')"))
    ELSE Return(ForecastText(locs[k], log[2].doc.elems, log[3].doc.elems, days.v[1]))

getWeatherForecast(city, days, log) ==
    HandlerCatch("Erro ao obter previsao: ", ForecastBody(city, days, log))

(***************************************************************************)
(* getWeatherWarnings()                                                    *)
(***************************************************************************)
NoWarningsText == <<Line("Nao ha avisos meteorologicos ativos no momento.", <<>>)>>

WarningsText(data) ==
    LET block(w) == <<Line("warning", <<w.awarenessTypeName>>)>>
                    \o (IF w.text # "" THEN <<Line("Detalhes", <<w.text>>)>> ELSE <<>>)
    IN  <<Line("Avisos Meteorologicos Ativos", <<>>)>>
        \o Flatten([i \in 1..Len(data) |-> block(data[i])])

WarningsBody(log) ==
    IF Len(log) = 0 THEN Await(WarningsUrl)
    ELSE IF log[1].r # "json" THEN Throw(FetchFailure(log[1]))
    ELSE IF log[1].doc.type # "array" \/ Len(log[1].doc.elems) = 0 THEN Return(NoWarningsText)
    ELSE Return(WarningsText(log[1].doc.elems))

getWeatherWarnings(log) == HandlerCatch("Erro ao obter avisos: ", WarningsBody(log))

(***************************************************************************)
(* getSeismicData(area)                                                    *)
(***************************************************************************)
SeismicLimit == 10

Continent == <<"c", "o", "n", "t", "i", "n", "e", "n", "t">>

Azores == <<"a", "z", "o", "r", "e", "s">>

Madeira == <<"m", "a", "d", "e", "i", "r", "a">>

All == <<"a", "l", "l">>

\* The switch on area.toLowerCase().
AreaId(area) ==
    LET a == toLowerCase(area)
    IN  CASE a = Continent -> 1
          [] a = Azores -> 2
          [] a = Madeira -> 3
          [] OTHER -> 1

NoSeismicText == <<Line("Nao ha dados sismicos recentes para a area especificada.", <<>>)>>

SeismicText(area, data) ==
    LET recentData == Slice0(data, SeismicLimit)
    IN  <<Line("Dados Sismicos", <<area>>)>>
        \o [i \in 1..Len(recentData) |-> Line("earthquake", <<recentData[i].time>>)]

SeismicBody(area, log) ==
    IF area.t # "string"
    THEN Throw(JsError("TypeError", "area.toLowerCase is not a function"))
    ELSE IF Len(log) = 0 THEN Await(SeismicUrl(AreaId(area.v)))
    ELSE IF log[1].r # "json" THEN Throw(FetchFailure(log[1]))
    ELSE IF ~log[1].doc.hasData \/ Len(log[1].doc.elems) = 0 THEN Return(NoSeismicText)
    ELSE Return(SeismicText(area.v, log[1].doc.elems))

getSeismicData(area, log) == HandlerCatch("Erro ao obter dados sismicos: ", SeismicBody(area, log))

(***************************************************************************)
(* getLocations()                                                          *)
(***************************************************************************)
\* Object.values(groupedByDistrict): integer-like keys come in ascending order.
RECURSIVE SortedIds(_)
SortedIds(S) ==
    IF S = {} THEN <<>>
    ELSE LET m == CHOOSE x \in S : \A y \in S : x <= y
         IN  <<m>> \o SortedIds(S \ {m})

LocationsText(data) ==
    LET ids == SortedIds({data[i].idDistrito : i \in 1..Len(data)})
        group(d) == SelectSeq(data, LAMBDA loc : loc.idDistrito = d)
        block(d) == <<Line("Regiao", <<d>>)>>
                    \o [i \in 1..Len(group(d)) |-> Line("local", <<group(d)[i].local>>)]
    IN  <<Line("Locais Disponiveis para Previsao", <<>>)>>
        \o Flatten([i \in 1..Len(ids) |-> block(ids[i])])

LocationsBody(log) ==
    IF Len(log) = 0 THEN Await(LocationsUrl)
    ELSE IF log[1].r # "json" THEN Throw(FetchFailure(log[1]))
    ELSE IF ~log[1].doc.hasData
    THEN Throw(JsError("TypeError", "Cannot read properties of undefined (reading 'forEach')"))
    ELSE Return(LocationsText(log[1].doc.elems))

getLocations(log) == HandlerCatch("Erro ao obter locais: ", LocationsBody(log))

(***************************************************************************)
(* getWeatherStations().  The observations document is an object keyed by  *)
(* timestamp; each value is an object keyed by station id.  Both are kept  *)
(* as sequences of entries in Object.keys order.                           *)
(***************************************************************************)
StationLimit == 15

Sentinel == -99

\* stationsInfo[stationId] || `Estação ${stationId}`
StationName(stations, id) ==
    LET hits == SelectSeq(stations, LAMBDA st : st.idEstacao = id)
    IN  IF hits = <<>> \/ hits[Len(hits)].localEstacao = "" THEN "Estacao <id>"
        ELSE hits[Len(hits)].localEstacao

\* A comparison that also lets the sentinel through.
HasReadingInclusive(v) == v >= Sentinel

\* `obs.<measurement> > -99`
HasReading(v) == v > Sentinel

\* Lines 371-377: the name line, then one line per measurement above the sentinel.
StationBlock(stations, obs) ==
    <<Line("station", <<StationName(stations, obs.idEstacao)>>)>>
    \o (IF HasReading(obs.temperatura) THEN <<Line("Temperatura", <<obs.temperatura>>)>> ELSE <<>>)
    \o (IF HasReading(obs.humidade) THEN <<Line("Humidade", <<obs.humidade>>)>> ELSE <<>>)
    \o (IF HasReading(obs.pressao) THEN <<Line("Pressao", <<obs.pressao>>)>> ELSE <<>>)
    \o (IF HasReading(obs.intensidadeVento) THEN <<Line("Vento", <<obs.intensidadeVento>>)>> ELSE <<>>)
    \o (IF HasReading(obs.precAcumulada) THEN <<Line("Precipitacao", <<obs.precAcumulada>>)>> ELSE <<>>)

StationsText(latestTimestamp, latestObservations, stations) ==
    LET shown == Slice0(latestObservations, StationLimit)
    IN  <<Line("Observacoes das Estacoes Meteorologicas", <<>>),
          Line("Observacoes de", <<latestTimestamp>>)>>
        \o Flatten([i \in 1..Len(shown) |-> StationBlock(stations, shown[i])])

StationsBody(log) ==
    IF Len(log) = 0 THEN Await(ObservationsUrl)
    ELSE IF log[1].r # "json" THEN Throw(FetchFailure(log[1]))
    ELSE IF Len(log) = 1 THEN Await(StationsUrl)
    ELSE IF log[2].r # "json" THEN Throw(FetchFailure(log[2]))
    ELSE IF log[2].doc.type # "array"
    THEN Throw(JsError("TypeError", "stationsData.reduce is not a function"))
    ELSE LET timestamps == log[1].doc.elems IN
    \* data[undefined] is undefined, and Object.keys(undefined) throws
    IF Len(timestamps) = 0
    THEN Throw(JsError("TypeError", "Cannot convert undefined or null to object"))
    ELSE Return(StationsText(timestamps[Len(timestamps)].key,
                             timestamps[Len(timestamps)].value, log[2].doc.elems))

getWeatherStations(log) == HandlerCatch("Erro ao obter dados das estacoes: ", StationsBody(log))

(***************************************************************************)
(* getUVForecast()                                                         *)
(***************************************************************************)
UvDateLimit == 3

UvPerDateLimit == 10

IsDigit(ch) == ch \in {"0", "1", "2", "3", "4", "5", "6", "7", "8", "9"}

DigitVal(ch) ==
    CASE ch = "0" -> 0 [] ch = "1" -> 1 [] ch = "2" -> 2 [] ch = "3" -> 3 [] ch = "4" -> 4
      [] ch = "5" -> 5 [] ch = "6" -> 6 [] ch = "7" -> 7 [] ch = "8" -> 8 [] ch = "9" -> 9

RECURSIVE DigitsLen(_)
DigitsLen(s) == IF s = <<>> \/ ~IsDigit(Head(s)) THEN 0 ELSE 1 + DigitsLen(Tail(s))

RECURSIVE DigitsVal(_)
DigitsVal(s) ==
    IF s = <<>> THEN 0 ELSE 10 * DigitsVal(SubSeq(s, 1, Len(s) - 1)) + DigitVal(s[Len(s)])

RECURSIVE Pow10(_)
Pow10(k) == IF k = 0 THEN 1 ELSE 10 * Pow10(k - 1)

NaN == [nan |-> TRUE, num |-> 0, den |-> 1]

\* parseFloat on a string of sign, digits and '.', as the exact fraction num/den:
\* the longest prefix that reads as a decimal number, NaN when there is none.
parseFloat(s) ==
    LET signed == s # <<>> /\ s[1] \in {"-", "+"}
        body == IF signed THEN Tail(s) ELSE s
        ni == DigitsLen(body)
        afterInt == SubSeq(body, ni + 1, Len(body))
        fracSrc == IF afterInt # <<>> /\ afterInt[1] = "." THEN Tail(afterInt) ELSE <<>>
        nf == DigitsLen(fracSrc)
        mag == DigitsVal(SubSeq(body, 1, ni)) * Pow10(nf) + DigitsVal(SubSeq(fracSrc, 1, nf))
    IN  IF ni = 0 /\ nf = 0 THEN NaN
        ELSE [nan |-> FALSE, num |-> IF signed /\ s[1] = "-" THEN 0 - mag ELSE mag,
              den |-> Pow10(nf)]

\* A strict comparison in place of <=.
Lt(uvLevel, k) == ~uvLevel.nan /\ uvLevel.num < k * uvLevel.den

\* uvLevel <= k for a number k (false for NaN, as every comparison with NaN is).
Leq(uvLevel, k) == ~uvLevel.nan /\ uvLevel.num <= k * uvLevel.den

\* The if / else-if chain of lines 436-440.
UvCategory(uvLevel) ==
    IF Leq(uvLevel, 2) THEN "Baixo"
    ELSE IF Leq(uvLevel, 5) THEN "Moderado"
    ELSE IF Leq(uvLevel, 7) THEN "Alto"
    ELSE IF Leq(uvLevel, 10) THEN "Muito Alto"
    ELSE "Extremo"

\* The distinct elements of a sequence in order of first occurrence
\* (Object.keys of an object filled in that order with non-integer keys).
RECURSIVE Dedup(_)
Dedup(s) ==
    IF s = <<>> THEN <<>>
    ELSE LET init == Dedup(SubSeq(s, 1, Len(s) - 1))
             x == s[Len(s)]
         IN  IF \E i \in 1..Len(init) : init[i] = x THEN init ELSE Append(init, x)

\* locationMap[uv.globalIdLocal] || `Local ${uv.globalIdLocal}`
UvLocationName(locs, id) ==
    LET hits == SelectSeq(locs, LAMBDA loc : loc.globalIdLocal = id)
    IN  IF hits = <<>> \/ hits[Len(hits)].local = <<>> THEN <<"Local <id>">>
        ELSE hits[Len(hits)].local

UvLine(locs, uv) ==
    Line("uv", <<UvLocationName(locs, uv.globalIdLocal), uv.iUv, UvCategory(parseFloat(uv.iUv))>>)

UvText(data, locs) ==
    LET dates == Slice0(Dedup([i \in 1..Len(data) |-> data[i].data]), UvDateLimit)
        ofDate(d) == Slice0(SelectSeq(data, LAMBDA uv : uv.data = d), UvPerDateLimit)
        block(d) == <<Line("date", <<d>>)>>
                    \o [i \in 1..Len(ofDate(d)) |-> UvLine(locs, ofDate(d)[i])]
    IN  <<Line("Previsao do Indice UV", <<>>)>>
        \o Flatten([i \in 1..Len(dates) |-> block(dates[i])])

NoUvText == <<Line("Nao ha dados de UV disponiveis no momento.", <<>>)>>

UvBody(log) ==
    IF Len(log) = 0 THEN Await(UvUrl)
    ELSE IF log[1].r # "json" THEN Throw(FetchFailure(log[1]))
    ELSE IF log[1].doc.type # "array" \/ Len(log[1].doc.elems) = 0 THEN Return(NoUvText)
    ELSE IF Len(log) = 1 THEN Await(LocationsUrl)
    ELSE IF log[2].r # "json" THEN Throw(FetchFailure(log[2]))
    ELSE IF ~log[2].doc.hasData
    THEN Throw(JsError("TypeError", "Cannot read properties of undefined (reading 'reduce')"))
    ELSE Return(UvText(log[1].doc.elems, log[2].doc.elems))

getUVForecast(log) == HandlerCatch("Erro ao obter previsao UV: ", UvBody(log))

(***************************************************************************)
(* The tool catalog and the call-tool dispatcher.                          *)
(***************************************************************************)
\* The names of the descriptors the list-tools handler returns, in order.
ToolNames ==
    <<"get_weather_forecast", "get_weather_warnings", "get_seismic_data",
      "get_locations", "get_weather_stations", "get_uv_forecast">>

ToolSet == {ToolNames[i] : i \in 1..Len(ToolNames)}

\* x || d
Or(x, d) == IF Truthy(x) THEN x ELSE d

\* args?.city, args?.area: undefined when the request carries no arguments.
ArgCity(args) == IF args.present THEN args.city ELSE Undefined

ArgArea(args) == IF args.present THEN args.area ELSE Undefined

Invoke(fn, city, days, area) == [fn |-> fn, city |-> city, days |-> days, area |-> area]

NoHandler == Invoke("none", Undefined, Undefined, Undefined)

Selected(h) == [h |-> h, err |-> NoError]

Refused(err) == [h |-> NoHandler, err |-> err]

\* A check that looks at city only when the request carries an arguments object.
CityMissingUnlessNoArgs(args) == args.present /\ ~Truthy(args.city)

\* !args?.city
CityMissing(args) == ~Truthy(ArgCity(args))

\* A switch whose default falls into the last case.
DefaultCaseFallsThrough(name) ==
    Selected(Invoke("getUVForecast", Undefined, Undefined, Undefined))

\* default: throw new McpError(ErrorCode.MethodNotFound, `Tool ${name} not found`)
DefaultCase(name) == Refused(McpError("MethodNotFound", <<"Tool ", name, " not found">>))

\* The switch of lines 109-127: the handler invocation selected, or the error thrown.
Dispatch(name, args) ==
    CASE name = "get_weather_forecast" ->
            IF CityMissing(args)
            THEN Refused(McpError("InvalidParams", <<"City parameter is required">>))
            ELSE Selected(Invoke("getWeatherForecast", args.city, Or(args.days, Num(5)), Undefined))
      [] name = "get_weather_warnings" ->
            Selected(Invoke("getWeatherWarnings", Undefined, Undefined, Undefined))
      [] name = "get_seismic_data" ->
            Selected(Invoke("getSeismicData", Undefined, Undefined, Or(ArgArea(args), Str(All))))
      [] name = "get_locations" ->
            Selected(Invoke("getLocations", Undefined, Undefined, Undefined))
      [] name = "get_weather_stations" ->
            Selected(Invoke("getWeatherStations", Undefined, Undefined, Undefined))
      [] name = "get_uv_forecast" ->
            Selected(Invoke("getUVForecast", Undefined, Undefined, Undefined))
      [] OTHER -> DefaultCase(name)

\* The dispatcher's catch, lines 128-134.
DispatchCatch(err) ==
    IF err.name = "McpError" THEN err
    ELSE McpError("InternalError", <<"Error: ">> \o err.message)

\* The try block of handler invocation h, run on the responses resolved so far.
BodyOf(h, log) ==
    CASE h.fn = "getWeatherForecast" -> ForecastBody(h.city, h.days, log)
      [] h.fn = "getWeatherWarnings" -> WarningsBody(log)
      [] h.fn = "getSeismicData" -> SeismicBody(h.area, log)
      [] h.fn = "getLocations" -> LocationsBody(log)
      [] h.fn = "getWeatherStations" -> StationsBody(log)
      [] h.fn = "getUVForecast" -> UvBody(log)

\* Handler invocation h as a whole (its try and its catch).
HandlerRun(h, log) ==
    CASE h.fn = "getWeatherForecast" -> getWeatherForecast(h.city, h.days, log)
      [] h.fn = "getWeatherWarnings" -> getWeatherWarnings(log)
      [] h.fn = "getSeismicData" -> getSeismicData(h.area, log)
      [] h.fn = "getLocations" -> getLocations(log)
      [] h.fn = "getWeatherStations" -> getWeatherStations(log)
      [] h.fn = "getUVForecast" -> getUVForecast(log)

(***************************************************************************)
(* What the caller receives.                                               *)
(***************************************************************************)
NoOutcome == [kind |-> "none", message |-> <<>>, text |-> <<>>]

\* { content: [{ type: "text", text }] }
ToolResult(text) == [kind |-> "ToolResult", message |-> <<>>, text |-> text]

\* An McpError reaching the protocol server: its code is the kind of the reply.
ErrorReply(err) == [kind |-> err.code, message |-> err.message, text |-> <<>>]

\* { tools: [...] }
ToolList == [kind |-> "ToolList", message |-> <<>>,
             text |-> [i \in 1..Len(ToolNames) |-> Line("tool", <<ToolNames[i]>>)]]

\* The responses of a call's resolved fetches, in order: the handler's local variables.
Responses(f) == [i \in 1..Len(f) |-> f[i].resp]

\* Handler locals kept in one place for all calls (those of the first connection).
CallLogShared(f, c) == Responses(f[1])

\* The responses call c's handler works on: each call has its own locals.
CallLog(f, c) == Responses(f[c])

(***************************************************************************)
(* The environment: what callers send and what the upstream API answers.   *)
(***************************************************************************)
ToolsCall(name, args) == [method |-> "tools/call", name |-> name, args |-> args]

ToolsListRequest ==
    [method |-> "tools/list", name |-> "",
     args |-> [present |-> FALSE, city |-> Undefined, days |-> Undefined, area |-> Undefined]]

NoRequest ==
    [method |-> "none", name |-> "",
     args |-> [present |-> FALSE, city |-> Undefined, days |-> Undefined, area |-> Undefined]]

Braga == <<"B", "r", "a", "g", "a">>

Braganca == <<"B", "r", "a", "g", "a", "n", "c", "a">>

Porto == <<"P", "o", "r", "t", "o">>

Location(local, id, district) == [local |-> local, globalIdLocal |-> id, idDistrito |-> district]

LocationPool == {Location(Braganca, 1040200, 4), Location(Braga, 1030300, 3), Location(Porto, 1131200, 13)}

\* City arguments: matching both Braga and Braganca, only Braganca, Porto, nothing;
\* the empty string; a number.
CityArgs ==
    {Undefined, Str(<<>>), Str(<<"b", "r", "a", "g", "a">>), Str(<<"G", "A", "N">>),
     Str(<<"P", "O", "R", "T", "O">>), Str(<<"f", "a", "r", "o">>), Num(7)}

\* The largest number of days the catalog advertises for get_weather_forecast
\* ("Número de dias de previsão (máximo 10)").
DaysAdvertisedMax == 10

\* Small values, and the advertised maximum and the value just above it.
DaysArgs ==
    {Undefined} \cup {Num(k) : k \in (0 - 1)..MaxDaysArg}
    \cup {Num(DaysAdvertisedMax), Num(DaysAdvertisedMax + 1)}

AreaArgs == {Undefined, Str(<<>>), Str(All), Str(<<"A", "Z", "O", "R", "E", "S">>),
             Str(Madeira), Str(Continent), Num(2)}

NoArgs == [present |-> FALSE, city |-> Undefined, days |-> Undefined, area |-> Undefined]

Args(city, days, area) == [present |-> TRUE, city |-> city, days |-> days, area |-> area]

UnknownNames == {"get_tides", "GET_LOCATIONS", ""}

FullRequests ==
    {ToolsListRequest}
    \cup {ToolsCall("get_weather_forecast", NoArgs)}
    \cup {ToolsCall("get_weather_forecast", Args(c, d, Undefined)) : c \in CityArgs, d \in DaysArgs}
    \cup {ToolsCall("get_seismic_data", NoArgs)}
    \cup {ToolsCall("get_seismic_data", Args(Undefined, Undefined, a)) : a \in AreaArgs}
    \cup {ToolsCall(n, a) :
            n \in {"get_weather_warnings", "get_locations", "get_weather_stations", "get_uv_forecast"},
            a \in {NoArgs, Args(Undefined, Undefined, Undefined)}}
    \cup {ToolsCall(n, a) :
            n \in UnknownNames,
            a \in {NoArgs, Args(Undefined, Undefined, Undefined),
                   Args(Str(Braga), Num(2), Str(All))}}

Day(i) == [forecastDate |-> i, idWeatherType |-> i]

\* A forecast response with one daily entry more than the advertised maximum.
LongForecast == [i \in 1..(DaysAdvertisedMax + 1) |-> Day(i)]

WeatherType(id, desc) == [idWeatherType |-> id, descWeatherTypePT |-> desc]

Warning(name, text) == [awarenessTypeName |-> name, text |-> text]

Earthquake(t) == [time |-> t]

Station(id, name) == [idEstacao |-> id, localEstacao |-> name]

Readings == {Sentinel, 20}

\* The five measurements of one station observation.
Measures ==
    [temperatura : Readings \cup {Sentinel + 1}, humidade : Readings, pressao : Readings,
     intensidadeVento : Readings, precAcumulada : Readings]

Observation(id, m) ==
    [idEstacao |-> id, temperatura |-> m.temperatura, humidade |-> m.humidade,
     pressao |-> m.pressao, intensidadeVento |-> m.intensidadeVento,
     precAcumulada |-> m.precAcumulada]

\* The stations of one timestamp, in Object.keys order (ascending station id).
StationSeqs ==
    UNION {{[i \in 1..k |-> Observation(i, ms[i])] : ms \in [1..k -> Measures]} :
             k \in 0..MaxStations}

Stamp(key, value) == [key |-> key, value |-> value]

ObservationDocs ==
    {Map(<<>>)}
    \cup {Map(<<Stamp("t1", sts)>>) : sts \in StationSeqs}
    \cup {Map(<<Stamp("t1", <<>>), Stamp("t2", sts)>>) : sts \in StationSeqs}

UvChars == {"0", "1", "2", "5", "6", "7", ".", "-"}

UvStrings == SeqsUpTo(UvChars, MaxUvLen)

Uv(date, id, iUv) == [data |-> date, globalIdLocal |-> id, iUv |-> iUv]

UvDocs ==
    {Map(<<>>), Arr(<<>>)}
    \cup {Arr(<<Uv("d1", 1030300, s)>>) : s \in UvStrings}
    \cup {Arr(<<Uv("d1", 1030300, <<"6">>), Uv("d2", 1030300, <<"1", "1">>), Uv("d1", 9, <<"2">>)>>),
          Arr(<<Uv("d1", 1, <<"1">>), Uv("d2", 1, <<"5">>), Uv("d3", 1, <<"7">>),
                Uv("d4", 1, <<"1", "0">>)>>)}

JsonOf(docs) == {Json(d) : d \in docs}

FullUpstream ==
    [ep \in {"distrits-islands", "forecast/daily", "weather-type-classe", "warnings_www",
             "seismic", "stations/observations", "stations/stations", "uv"} |->
       Failures \cup
       CASE ep = "distrits-islands" ->
                JsonOf({Map(<<>>)} \cup {Obj(l) : l \in SeqsUpTo(LocationPool, MaxLocs)})
         [] ep = "forecast/daily" ->
                JsonOf({Map(<<>>), Obj(LongForecast)}
                       \cup {Obj(f) : f \in SeqsUpTo({Day(i) : i \in 1..MaxForecast}, MaxForecast)})
         [] ep = "weather-type-classe" ->
                JsonOf({Map(<<>>), Obj(<<>>), Obj(<<WeatherType(1, "Ceu limpo")>>)})
         [] ep = "warnings_www" ->
                JsonOf({Map(<<>>), Arr(<<>>), Arr(<<Warning("Vento", "")>>),
                        Arr(<<Warning("Vento", ""), Warning("Chuva", "Aguaceiros")>>)})
         [] ep = "seismic" ->
                JsonOf({Map(<<>>), Arr(<<>>), Obj(<<>>), Obj(<<Earthquake("t1")>>),
                        Obj(<<Earthquake("t2"), Earthquake("t1")>>)})
         [] ep = "stations/observations" -> JsonOf(ObservationDocs)
         [] ep = "stations/stations" ->
                JsonOf({Map(<<>>), Arr(<<>>), Arr(<<Station(1, "Lisboa")>>)})
         [] ep = "uv" -> JsonOf(UvDocs)]

\* A small environment for several concurrent calls: every endpoint either rejects
\* or answers one well-formed document.
SmallRequests ==
    {ToolsListRequest,
     ToolsCall("get_weather_forecast", NoArgs),
     ToolsCall("get_weather_forecast", Args(Str(Braga), Undefined, Undefined)),
     ToolsCall("get_weather_warnings", NoArgs),
     ToolsCall("get_seismic_data", NoArgs),
     ToolsCall("get_locations", NoArgs),
     ToolsCall("get_weather_stations", NoArgs),
     ToolsCall("get_uv_forecast", NoArgs),
     ToolsCall("get_tides", NoArgs)}

SmallUpstream ==
    [ep \in DOMAIN FullUpstream |->
       {Rejected} \cup
       CASE ep = "distrits-islands" -> JsonOf({Obj(<<Location(Braga, 1030300, 3)>>)})
         [] ep = "forecast/daily" -> JsonOf({Obj(<<Day(1)>>)})
         [] ep = "weather-type-classe" -> JsonOf({Obj(<<WeatherType(1, "Ceu limpo")>>)})
         [] ep = "warnings_www" -> JsonOf({Arr(<<>>), Arr(<<Warning("Vento", "")>>)})
         [] ep = "seismic" -> JsonOf({Obj(<<Earthquake("t1")>>)})
         [] ep = "stations/observations" ->
                JsonOf({Map(<<Stamp("t1", <<Observation(1, [temperatura |-> 20,
                          humidade |-> Sentinel, pressao |-> 20, intensidadeVento |-> 20,
                          precAcumulada |-> 20])>>)>>)})
         [] ep = "stations/stations" -> JsonOf({Arr(<<Station(1, "Lisboa")>>)})
         [] ep = "uv" -> JsonOf({Arr(<<Uv("d1", 1030300, <<"6">>)>>)})]

\* The connections open, the requests callers send and the answers of each endpoint.
Slots(sc) == IF sc = "full" THEN {1} ELSE Calls

Requests(sc) == IF sc = "full" THEN FullRequests ELSE SmallRequests

Upstream(sc) == IF sc = "full" THEN FullUpstream ELSE SmallUpstream

(***************************************************************************)
(* Actions.                                                                *)
(***************************************************************************)
\* Call c's handler h runs on `log` up to its next await, its return or its throw;
\* `rest` are the fetches of the call still outstanding.
Settle(c, h, log, rest) ==
    LET step == HandlerRun(h, log)
        raw == BodyOf(h, log)
    IN  /\ inflight' = [inflight EXCEPT ![c] = rest \cup step.urls]
        /\ thrown' = [thrown EXCEPT ![c] = IF raw.next = "throw" THEN raw.err ELSE @]
        /\ CASE step.next = "await" ->
                  /\ pc' = [pc EXCEPT ![c] = "fetching"]
                  /\ UNCHANGED outcome
             [] step.next = "return" ->
                  /\ pc' = [pc EXCEPT ![c] = "done"]
                  /\ outcome' = [outcome EXCEPT ![c] = ToolResult(step.text)]
             [] step.next = "throw" ->
                  /\ pc' = [pc EXCEPT ![c] = "done"]
                  /\ outcome' = [outcome EXCEPT ![c] = ErrorReply(DispatchCatch(step.err))]

\* The calls other than c that are suspended at an await see c make progress.
Overlapped(c) ==
    [o \in Calls |-> IF o # c /\ pc[o] \in {"fetching", "listing"} THEN TRUE ELSE overlap[o]]

\* A call-tool request arrives: the dispatcher runs up to the handler's first await.
CallTool(c) ==
    /\ c \in Slots(scope)
    /\ pc[c] = "idle"
    /\ \E req \in Requests(scope) :
          /\ req.method = "tools/call"
          /\ request' = [request EXCEPT ![c] = req]
          /\ LET d == Dispatch(req.name, req.args)
             IN  /\ handler' = [handler EXCEPT ![c] = d.h]
                 /\ IF d.err # NoError
                    THEN /\ pc' = [pc EXCEPT ![c] = "done"]
                         /\ thrown' = [thrown EXCEPT ![c] = d.err]
                         /\ outcome' = [outcome EXCEPT ![c] = ErrorReply(DispatchCatch(d.err))]
                         /\ UNCHANGED inflight
                    ELSE Settle(c, d.h, <<>>, {})
    /\ overlap' = Overlapped(c)
    /\ UNCHANGED <<scope, fetched>>

\* One outstanding fetch of call c resolves (or rejects) and the handler resumes.
FetchResolve(c) ==
    /\ pc[c] = "fetching"
    /\ \E url \in inflight[c] :
          \E resp \in Upstream(scope)[url.ep] :
             /\ fetched' = [fetched EXCEPT ![c] = Append(@, [url |-> url, resp |-> resp])]
             /\ Settle(c, handler[c], CallLog(fetched', c), inflight[c] \ {url})
    /\ overlap' = Overlapped(c)
    /\ UNCHANGED <<scope, request, handler>>

\* A list-tools request arrives: the handler awaits its 100 ms timer.
ListTools(c) ==
    /\ c \in Slots(scope)
    /\ pc[c] = "idle"
    /\ ToolsListRequest \in Requests(scope)
    /\ request' = [request EXCEPT ![c] = ToolsListRequest]
    /\ pc' = [pc EXCEPT ![c] = "listing"]
    /\ overlap' = Overlapped(c)
    /\ UNCHANGED <<scope, handler, inflight, fetched, thrown, outcome>>

\* The timer fires and the catalog is returned.
ListToolsTimer(c) ==
    /\ pc[c] = "listing"
    /\ pc' = [pc EXCEPT ![c] = "done"]
    /\ outcome' = [outcome EXCEPT ![c] = ToolList]
    /\ overlap' = Overlapped(c)
    /\ UNCHANGED <<scope, request, handler, inflight, fetched, thrown>>

\* The protocol server sends the reply; nothing of the call is kept.
Reply(c) ==
    /\ pc[c] = "done"
    /\ pc' = [pc EXCEPT ![c] = "idle"]
    /\ request' = [request EXCEPT ![c] = NoRequest]
    /\ handler' = [handler EXCEPT ![c] = NoHandler]
    /\ inflight' = [inflight EXCEPT ![c] = {}]
    /\ fetched' = [fetched EXCEPT ![c] = <<>>]
    /\ thrown' = [thrown EXCEPT ![c] = NoError]
    /\ outcome' = [outcome EXCEPT ![c] = NoOutcome]
    /\ overlap' = [overlap EXCEPT ![c] = FALSE]
    /\ UNCHANGED scope

Next ==
    \E c \in Calls :
        \/ CallTool(c)
        \/ FetchResolve(c)
        \/ ListTools(c)
        \/ ListToolsTimer(c)
        \/ Reply(c)

(***************************************************************************)
(* Specifications.                                                         *)
(***************************************************************************)
\* After construction no call is being served.
InitCalls ==
    /\ pc = [c \in Calls |-> "idle"]
    /\ request = [c \in Calls |-> NoRequest]
    /\ handler = [c \in Calls |-> NoHandler]
    /\ inflight = [c \in Calls |-> {}]
    /\ fetched = [c \in Calls |-> <<>>]
    /\ thrown = [c \in Calls |-> NoError]
    /\ outcome = [c \in Calls |-> NoOutcome]
    /\ overlap = [c \in Calls |-> FALSE]

\* One connection, every request and every upstream answer of the model.
Init == scope = "full" /\ InitCalls

\* NumCalls connections served concurrently, in the small environment.
InitConc == scope = "small" /\ InitCalls

Spec == Init /\ [][Next]_vars

SpecConc == InitConc /\ [][Next]_vars

(***************************************************************************)
(* Properties.                                                             *)
(***************************************************************************)
IsCall(c) == request[c].method = "tools/call"

Done(c) == pc[c] = "done"

NoFetch(c) == inflight[c] = {} /\ fetched[c] = <<>>

\* C1: a call-tool request whose name is none of the six catalog names, whatever its
\* arguments, ends with MethodNotFound; no handler is invoked and no fetch is issued.
UnknownToolIsMethodNotFound ==
    \A c \in Calls :
        (IsCall(c) /\ request[c].name \notin ToolSet) =>
            /\ Done(c)
            /\ outcome[c].kind = "MethodNotFound"
            /\ handler[c] = NoHandler
            /\ NoFetch(c)

UnknownToolWitness ==
    \E c \in Calls :
        /\ IsCall(c) /\ request[c].name \notin ToolSet /\ request[c].args.present
        /\ Done(c) /\ outcome[c].kind = "MethodNotFound"

\* The city argument is absent: no arguments at all, or no city key.
CityAbsent(args) == ~args.present \/ args.city = Undefined

\* C2: a get_weather_forecast call without a city ends with InvalidParams, raised
\* before the forecast handler runs, so no fetch is issued for it.
ForecastWithoutCityIsInvalidParams ==
    \A c \in Calls :
        (IsCall(c) /\ request[c].name = "get_weather_forecast" /\ CityAbsent(request[c].args)) =>
            /\ Done(c)
            /\ outcome[c].kind = "InvalidParams"
            /\ handler[c] = NoHandler
            /\ NoFetch(c)

ForecastWithoutCityWitness ==
    \E c \in Calls :
        /\ IsCall(c) /\ request[c].name = "get_weather_forecast"
        /\ ~request[c].args.present
        /\ Done(c) /\ outcome[c].kind = "InvalidParams"

\* C3: defaults are applied exactly to missing optional arguments: days = 5 when days is
\* missing, area = "all" when area is missing, and a supplied days or area reaches the
\* handler unchanged.
DefaultsOnlyForMissingArguments ==
    \A c \in Calls :
        /\ handler[c].fn = "getWeatherForecast" =>
              handler[c].days = IF request[c].args.days = Undefined THEN Num(5)
                                ELSE request[c].args.days
        /\ handler[c].fn = "getSeismicData" =>
              handler[c].area = IF ArgArea(request[c].args) = Undefined THEN Str(All)
                                ELSE request[c].args.area

DaysZeroWitness ==
    \E c \in Calls :
        /\ handler[c].fn = "getWeatherForecast"
        /\ request[c].args.days = Num(0)

\* The message msg carries the message part: part occurs in it, piece for piece.
Carries(msg, part) == part # <<>> /\ includes(msg, part)

FailedFetches(c) == {i \in 1..Len(fetched[c]) : fetched[c][i].resp \in Failures}

\* C4: a completed call-tool request ends in exactly one of ToolResult, InvalidParams,
\* MethodNotFound, InternalError.  A failure raised inside a handler (rejected fetch, JSON
\* parse failure, access to a missing field) reaches the caller as InternalError whose
\* message contains the original message, never as a ToolResult; InvalidParams and
\* MethodNotFound raised by the dispatcher keep their own kind.
HandlerFailuresAreInternalErrors ==
    \A c \in Calls :
        (IsCall(c) /\ Done(c)) =>
            /\ outcome[c].kind \in {"ToolResult", "InvalidParams", "MethodNotFound", "InternalError"}
            /\ (outcome[c].kind = "ToolResult") <=> (thrown[c] = NoError)
            /\ (handler[c] # NoHandler /\ thrown[c] # NoError) =>
                  /\ thrown[c].name # "McpError"
                  /\ outcome[c].kind = "InternalError"
                  /\ Carries(outcome[c].message, thrown[c].message)
            /\ \A i \in FailedFetches(c) :
                  /\ outcome[c].kind = "InternalError"
                  /\ Carries(outcome[c].message, FetchFailure(fetched[c][i].resp).message)
            /\ handler[c] = NoHandler =>
                  /\ thrown[c].name = "McpError"
                  /\ thrown[c].code \in {"InvalidParams", "MethodNotFound"}
                  /\ outcome[c].kind = thrown[c].code
                  /\ outcome[c].message = thrown[c].message

\* A missing field met after two good fetches, reported as InternalError.
MissingFieldWitness ==
    \E c \in Calls :
        /\ IsCall(c) /\ Done(c)
        /\ Len(fetched[c]) >= 2 /\ FailedFetches(c) = {}
        /\ thrown[c].name = "TypeError"
        /\ outcome[c].kind = "InternalError"

(***************************************************************************)
(* C5, the forecast result.                                                *)
(***************************************************************************)
\* name contains city as a case-insensitive substring.
ContainsIgnoringCase(name, city) ==
    \E off \in 0..(Len(name) - Len(city)) :
        \A j \in 1..Len(city) : LowerChar(name[off + j]) = LowerChar(city[j])

Min(a, b) == IF a <= b THEN a ELSE b

\* The forecast call of slot c has a days value d >= 1, a locations response with a
\* matching entry and a forecast response with a list of daily entries.
ForecastCase(c) ==
    /\ IsCall(c) /\ Done(c)
    /\ handler[c].fn = "getWeatherForecast"
    /\ handler[c].city.t = "string"
    /\ handler[c].days.v[1] >= 1
    /\ Len(fetched[c]) >= 2
    /\ fetched[c][1].resp.r = "json" /\ fetched[c][1].resp.doc.hasData
    /\ \E k \in 1..Len(fetched[c][1].resp.doc.elems) :
          ContainsIgnoringCase(fetched[c][1].resp.doc.elems[k].local, handler[c].city.v)
    /\ fetched[c][2].resp.r = "json" /\ fetched[c][2].resp.doc.hasData

\* The result names the first matching entry and shows the first min(d, n) days.
ForecastShown(c) ==
    LET locs == fetched[c][1].resp.doc.elems
        days == fetched[c][2].resp.doc.elems
        first == CHOOSE k \in 1..Len(locs) :
                    /\ ContainsIgnoringCase(locs[k].local, handler[c].city.v)
                    /\ \A j \in 1..(k - 1) :
                          ~ContainsIgnoringCase(locs[j].local, handler[c].city.v)
        m == Min(handler[c].days.v[1], Len(days))
        text == outcome[c].text
    IN  /\ outcome[c].kind = "ToolResult"
        /\ Len(text) = 1 + m
        /\ text[1] = Line("Previsao para", <<locs[first].local>>)
        /\ \A i \in 1..m :
              /\ text[1 + i].line = "day"
              /\ text[1 + i].val[1] = days[i].forecastDate

\* The weather-types fetch of the call resolved with a document that has a data list.
WeatherTypesArrived(c) ==
    /\ Len(fetched[c]) = 3
    /\ fetched[c][3].resp.r = "json" /\ fetched[c][3].resp.doc.hasData

AllFetchesGood(c) == \A i \in 1..Len(fetched[c]) : fetched[c][i].resp.r = "json"

FirstDoc(c) == fetched[c][1].resp.doc

\* The upstream data of the call is empty or holds nothing for the request.
EmptyCase(c) ==
    /\ IsCall(c) /\ Done(c) /\ handler[c] # NoHandler
    /\ Len(fetched[c]) >= 1 /\ AllFetchesGood(c)
    /\ CASE handler[c].fn = "getWeatherForecast" ->
               /\ handler[c].city.t = "string"
               /\ FirstDoc(c).hasData
               /\ \A k \in 1..Len(FirstDoc(c).elems) :
                     ~ContainsIgnoringCase(FirstDoc(c).elems[k].local, handler[c].city.v)
         [] handler[c].fn = "getWeatherWarnings" -> FirstDoc(c) = Arr(<<>>)
         [] handler[c].fn = "getSeismicData" -> FirstDoc(c) = Obj(<<>>)
         [] handler[c].fn = "getUVForecast" -> FirstDoc(c) = Arr(<<>>)
         [] handler[c].fn = "getLocations" -> FirstDoc(c) = Obj(<<>>)
         [] handler[c].fn = "getWeatherStations" ->
               /\ FirstDoc(c) = Map(<<>>)
               /\ Len(fetched[c]) = 2 /\ fetched[c][2].resp.doc.type = "array"

\* C6: empty or not-found upstream data is a successful outcome for every handler: a
\* ToolResult carrying a text, never InternalError.
EmptyDataIsAResult ==
    \A c \in Calls : EmptyCase(c) => outcome[c].kind = "ToolResult"

EmptyObservationsWitness ==
    \E c \in Calls : EmptyCase(c) /\ handler[c].fn = "getWeatherStations"

(***************************************************************************)
(* C7, the UV categories.                                                  *)
(***************************************************************************)
\* The category of the numeric value num/den (den > 0), by the documented thresholds.
CategoryOf(num, den) ==
    CASE num <= 2 * den -> "Baixo"
      [] 2 * den < num /\ num <= 5 * den -> "Moderado"
      [] 5 * den < num /\ num <= 7 * den -> "Alto"
      [] 7 * den < num /\ num <= 10 * den -> "Muito Alto"
      [] 10 * den < num -> "Extremo"

UvRendered(c) ==
    /\ IsCall(c) /\ Done(c)
    /\ handler[c].fn = "getUVForecast"
    /\ outcome[c].kind = "ToolResult"
    /\ outcome[c].text # NoUvText

UvLines(c) == SelectSeq(outcome[c].text, LAMBDA l : l.line = "uv")

\* The entries of the response that fall under its first UvDateLimit dates.
UvEntriesShown(c) ==
    LET data == FirstDoc(c).elems
        early(i) == Cardinality({data[j].data : j \in 1..i}) <= UvDateLimit
    IN  SelectSeq([i \in 1..Len(data) |-> [e |-> data[i], ok |-> early(i)]], LAMBDA x : x.ok)

\* C7: the category printed for a rendered UV entry is a function of its numeric iUv
\* value v: Baixo if v <= 2, Moderado if 2 < v <= 5, Alto if 5 < v <= 7, Muito Alto if
\* 7 < v <= 10, Extremo if v > 10; one category per entry ("6" renders Alto, "11" Extremo).
UvCategoryFollowsThresholds ==
    \A c \in Calls :
        UvRendered(c) =>
            /\ Len(UvLines(c)) = Len(UvEntriesShown(c))
            /\ \A i \in 1..Len(UvLines(c)) :
                  LET l == UvLines(c)[i]
                      v == parseFloat(l.val[2])
                  IN  /\ Len(l.val) = 3
                      /\ l.val[3] \in {"Baixo", "Moderado", "Alto", "Muito Alto", "Extremo"}
                      /\ ~v.nan => l.val[3] = CategoryOf(v.num, v.den)
                      /\ l.val[2] = <<"6">> => l.val[3] = "Alto"
                      /\ l.val[2] = <<"1", "1">> => l.val[3] = "Extremo"
                      /\ l.val[2] = <<"2">> => l.val[3] = "Baixo"
                      /\ l.val[2] = <<"2", ".", "5">> => l.val[3] = "Moderado"
                      /\ l.val[2] = <<"1", "0">> => l.val[3] = "Muito Alto"

\* A value on a threshold is rendered.
UvThresholdWitness ==
    \E c \in Calls :
        /\ UvRendered(c)
        /\ \E i \in 1..Len(UvLines(c)) :
              UvLines(c)[i].val[2] = <<"7">> /\ UvLines(c)[i].val[3] = "Alto"

(***************************************************************************)
(* C8, the station measurements.                                           *)
(***************************************************************************)
StationsRendered(c) ==
    /\ IsCall(c) /\ Done(c)
    /\ handler[c].fn = "getWeatherStations"
    /\ outcome[c].kind = "ToolResult"

\* The observations the call renders: those of the last timestamp.
LatestObservations(c) == FirstDoc(c).elems[Len(FirstDoc(c).elems)].value

\* The positions of the station name lines in the text.
NameLines(c) ==
    SortedIds({i \in 1..Len(outcome[c].text) : outcome[c].text[i].line = "station"})

\* The lines of the k-th station: from its name line up to the next name line.
StationLines(c, k) ==
    LET at == NameLines(c)
        to == IF k < Len(at) THEN at[k + 1] - 1 ELSE Len(outcome[c].text)
    IN  SubSeq(outcome[c].text, at[k], to)

MeasureLabels ==
    <<[label |-> "Temperatura", field |-> "temperatura"],
      [label |-> "Humidade", field |-> "humidade"],
      [label |-> "Pressao", field |-> "pressao"],
      [label |-> "Vento", field |-> "intensidadeVento"],
      [label |-> "Precipitacao", field |-> "precAcumulada"]>>

\* C8: for every station rendered and each of its five measurements, the line is omitted
\* when the value is the sentinel -99 and present when it is a reading above -99; an
\* omitted line leaves the other four lines and the station's name line as they are.
SentinelOmitsOnlyItsLine ==
    \A c \in Calls :
        StationsRendered(c) =>
            /\ Len(NameLines(c)) = Len(LatestObservations(c))
            /\ \A k \in 1..Len(LatestObservations(c)) :
                  LET obs == LatestObservations(c)[k]
                      lines == StationLines(c, k)
                      shown(m) == {i \in 1..Len(lines) : lines[i].line = MeasureLabels[m].label}
                      present == {m \in 1..5 : obs[MeasureLabels[m].field] > -99}
                  IN  /\ lines[1].line = "station"
                      /\ Len(lines) = 1 + Cardinality(present)
                      /\ \A m \in 1..5 :
                            /\ obs[MeasureLabels[m].field] = -99 => shown(m) = {}
                            /\ obs[MeasureLabels[m].field] > -99 =>
                                  \E i \in shown(m) :
                                      /\ shown(m) = {i}
                                      /\ lines[i].val = <<obs[MeasureLabels[m].field]>>
                      /\ \A m1, m2 \in present :
                            m1 < m2 => \A i \in shown(m1), j \in shown(m2) : i < j

\* A station with no temperature reading and four other readings.
SentinelWitness ==
    \E c \in Calls :
        /\ StationsRendered(c)
        /\ Len(LatestObservations(c)) >= 1
        /\ LatestObservations(c)[1].temperatura = -99
        /\ LatestObservations(c)[1].humidade > -99
        /\ Len(StationLines(c, 1)) = 5

(***************************************************************************)
(* C9, the order of the fetches of one call.                               *)
(***************************************************************************)
\* The number of fetches call c has issued so far.
IssuedCount(c) == Len(fetched[c]) + Cardinality(inflight[c])

\* The i-th fetch issued by call c went to url.
IssuedAt(c, i, url) ==
    IF i <= Len(fetched[c]) THEN fetched[c][i].url = url ELSE inflight[c] = {url}

\* C9: within one call at most one fetch is outstanding, each fetch is issued only after
\* the previous one resolved (and resolved well), a call issues at most 3 fetches and the
\* reply comes after the last.  get_weather_forecast fetches the locations, then the
\* forecast of the matched location's id, then the weather types, and neither of the
\* last two when no location matches or an earlier fetch rejected.
FetchesAreSequential ==
    \A c \in Calls :
        /\ Cardinality(inflight[c]) <= 1
        /\ IssuedCount(c) <= 3
        /\ (Done(c) \/ outcome[c] # NoOutcome) => inflight[c] = {}
        /\ pc[c] = "fetching" => (Cardinality(inflight[c]) = 1 /\ outcome[c] = NoOutcome)
        /\ \A i \in 1..(IssuedCount(c) - 1) : fetched[c][i].resp.r = "json"
        /\ handler[c].fn = "getWeatherForecast" =>
              /\ IssuedCount(c) >= 1 => IssuedAt(c, 1, [ep |-> "distrits-islands", id |-> 0])
              /\ IssuedCount(c) >= 2 =>
                    /\ FirstDoc(c).hasData
                    /\ \E k \in 1..Len(FirstDoc(c).elems) :
                          /\ ContainsIgnoringCase(FirstDoc(c).elems[k].local, handler[c].city.v)
                          /\ \A j \in 1..(k - 1) :
                                ~ContainsIgnoringCase(FirstDoc(c).elems[j].local, handler[c].city.v)
                          /\ IssuedAt(c, 2, [ep |-> "forecast/daily",
                                             id |-> FirstDoc(c).elems[k].globalIdLocal])
              /\ IssuedCount(c) >= 3 => IssuedAt(c, 3, [ep |-> "weather-type-classe", id |-> 0])
        /\ handler[c].fn = "getUVForecast" =>
              /\ IssuedCount(c) <= 2
              /\ IssuedCount(c) >= 1 => IssuedAt(c, 1, [ep |-> "uv", id |-> 0])
              /\ IssuedCount(c) >= 2 => IssuedAt(c, 2, [ep |-> "distrits-islands", id |-> 0])

\* A forecast call with its third fetch outstanding, for the second of two locations.
ThirdFetchWitness ==
    \E c \in Calls :
        /\ handler[c].fn = "getWeatherForecast"
        /\ Len(fetched[c]) = 2 /\ inflight[c] = {WeatherTypesUrl}
        /\ Len(FirstDoc(c).elems) = 2
        /\ fetched[c][2].url.id = FirstDoc(c).elems[2].globalIdLocal
        /\ FirstDoc(c).elems[1].globalIdLocal # FirstDoc(c).elems[2].globalIdLocal

(***************************************************************************)
(* C10, independence of the calls.                                         *)
(***************************************************************************)
\* What a request ends in when it is the only one served and its fetches resolve
\* with the responses of log, in order.
Alone(req, log) ==
    IF req.method = "tools/list" THEN ToolList
    ELSE LET d == Dispatch(req.name, req.args)
         IN  IF d.err # NoError THEN ErrorReply(DispatchCatch(d.err))
             ELSE LET step == HandlerRun(d.h, log)
                  IN  CASE step.next = "return" -> ToolResult(step.text)
                        [] step.next = "throw" -> ErrorReply(DispatchCatch(step.err))
                        [] OTHER -> NoOutcome

\* Everything the server holds for call slot c.
SlotState(c) ==
    <<pc[c], request[c], handler[c], inflight[c], fetched[c], thrown[c], outcome[c]>>

IdleSlot == <<"idle", NoRequest, NoHandler, {}, <<>>, NoError, NoOutcome>>

\* C10: calls share no mutable state.  However call-tool and list-tools requests
\* interleave at their await points, the outcome of a call is the one it has when run
\* alone on its own name, arguments and responses; two calls with the same request and
\* responses end alike; and a slot that has replied, with a result or an error, is as
\* it was at the start and accepts the next request.
CallsAreIndependent ==
    /\ \A c \in Calls :
          /\ Done(c) => outcome[c] = Alone(request[c], Responses(fetched[c]))
          /\ pc[c] = "fetching" =>
                /\ outcome[c] = NoOutcome
                /\ HandlerRun(handler[c], Responses(fetched[c])).urls = inflight[c]
          /\ pc[c] = "idle" => (SlotState(c) = IdleSlot /\ ENABLED CallTool(c))
    /\ \A c1, c2 \in Calls :
          (Done(c1) /\ Done(c2) /\ request[c1] = request[c2] /\ fetched[c1] = fetched[c2])
              => outcome[c1] = outcome[c2]

\* Two calls interleaved at their awaits: one failed, the other, with the same request,
\* returned its result.
InterleavedWitness ==
    \E c1, c2 \in Calls :
        /\ c1 # c2 /\ Done(c1) /\ Done(c2)
        /\ overlap[c1] /\ overlap[c2]
        /\ request[c1] = request[c2]
        /\ Len(fetched[c2]) = 3
        /\ outcome[c1].kind = "InternalError"
        /\ outcome[c2].kind = "ToolResult"

(***************************************************************************)
(* C11, the advertised maximum of days.                                    *)
(***************************************************************************)
ForecastRendered(c) ==
    /\ IsCall(c) /\ Done(c)
    /\ handler[c].fn = "getWeatherForecast"
    /\ outcome[c].kind = "ToolResult"

DayBlocks(c) == SelectSeq(outcome[c].text, LAMBDA l : l.line = "day")

\* C11: days is advertised as a number of forecast days with a maximum of 10: whatever
\* days value is supplied and however long the forecast response is, the forecast result
\* contains at most 10 day blocks.
AtMostTenDayBlocks ==
    \A c \in Calls : ForecastRendered(c) => Len(DayBlocks(c)) <= 10

\* A forecast rendered for a days value above the advertised maximum.
DaysAboveMaximumWitness ==
    \E c \in Calls :
        /\ ForecastRendered(c)
        /\ request[c].args.days.t = "number"
        /\ request[c].args.days.v[1] > 10
        /\ Len(fetched[c]) = 3

====
